---- MODULE Spec2Model ----
(***************************************************************************)
(* Model of wcgw/client/computer_use.py: the ToolResult combination, the   *)
(* coordinate scaler and the action dispatcher of ComputerTool.            *)
(*                                                                         *)
(* Python values are represented as follows.                               *)
(*   Optional[T]   None is <<>>, a present value v is <<v>>                *)
(*   str           a sequence of character codes (Nat)                     *)
(*   exceptions    the field err of the value an operator returns; "none"  *)
(*                 means the call returned normally                        *)
(***************************************************************************)
EXTENDS Integers, Sequences, FiniteSets, TLC

VARIABLES width, height, display_num, display_prefix, xdotool,
          booted, pc, last, sc, tr, run

vars == <<width, height, display_num, display_prefix, xdotool,
          booted, pc, last, sc, tr, run>>

geom == <<width, height, display_num, display_prefix, xdotool>>

----------------------------------------------------------------------------
(* Optional values *)

None == <<>>

Some(v) == <<v>>

IsNone(o) == o = <<>>

Val(o) == o[1]

(* Python truthiness of an Optional[str]: None and "" are falsy *)
Truthy(o) == o # None /\ Val(o) # <<>>

(* Python truthiness of an Optional[int]: None and 0 are falsy *)
TruthyInt(o) == o # None /\ Val(o) # 0

Abs(n) == IF n < 0 THEN -n ELSE n

----------------------------------------------------------------------------
(* Bounds of the model *)

\* API and device coordinates are drawn from 0..MaxCoord and around the edges
MaxCoord == 1400

\* longest text given to a type dispatch
MaxTextLen == 120

\* the aspect ratios a : b of the geometries a target is looked up for have
\* a and b in 1..MaxRatio
MaxRatio == 60

----------------------------------------------------------------------------
(* Program constants *)

TYPING_DELAY_MS == 12

TYPING_GROUP_SIZE == 50

screenshot_delay == 2

scaling_enabled == TRUE

\* a table whose WXGA entry is 1280x720
MAX_SCALING_TARGETS_720 ==
  << [name |-> "XGA",   width |-> 1024, height |-> 768],
     [name |-> "WXGA",  width |-> 1280, height |-> 720],
     [name |-> "FWXGA", width |-> 1366, height |-> 768] >>

MAX_SCALING_TARGETS ==
  << [name |-> "XGA",   width |-> 1024, height |-> 768],
     [name |-> "WXGA",  width |-> 1280, height |-> 800],
     [name |-> "FWXGA", width |-> 1366, height |-> 768] >>

----------------------------------------------------------------------------
(* ToolResult: four Optional[str] fields *)

ToolResult(o, e, i, s) == [output |-> o, error |-> e, base64_image |-> i, system |-> s]


\* a combination that concatenates, or raises, whenever both fields are
\* present, empty ones included
combine_fields_present(field, other_field, concatenate) ==
  IF field # None /\ other_field # None
  THEN IF concatenate
       THEN [err |-> "none", val |-> Some(Val(field) \o Val(other_field))]
       ELSE [err |-> "ValueError", val |-> None]
  ELSE [err |-> "none", val |-> IF Truthy(field) THEN field ELSE other_field]

\* a combination that keeps the first of two images instead of raising
combine_fields_keeps_first(field, other_field, concatenate) ==
  IF Truthy(field) /\ Truthy(other_field)
  THEN IF concatenate
       THEN [err |-> "none", val |-> Some(Val(field) \o Val(other_field))]
       ELSE [err |-> "none", val |-> field]
  ELSE [err |-> "none", val |-> IF Truthy(field) THEN field ELSE other_field]

\* ToolResult.__add__.combine_fields; err = "ValueError" is the raise
combine_fields(field, other_field, concatenate) ==
  IF Truthy(field) /\ Truthy(other_field)
  THEN IF concatenate
       THEN [err |-> "none", val |-> Some(Val(field) \o Val(other_field))]
       ELSE [err |-> "ValueError", val |-> None]
  ELSE [err |-> "none", val |-> IF Truthy(field) THEN field ELSE other_field]

\* ToolResult.__add__
Add(a, b) ==
  LET o == combine_fields(a.output, b.output, TRUE)
      e == combine_fields(a.error, b.error, TRUE)
      i == combine_fields(a.base64_image, b.base64_image, FALSE)
      s == combine_fields(a.system, b.system, TRUE)
  IN IF i.err # "none"
     THEN [err |-> i.err, res |-> ToolResult(None, None, None, None)]
     ELSE [err |-> "none", res |-> ToolResult(o.val, e.val, i.val, s.val)]


\* a split that drops an incomplete last chunk
chunks_whole_only(s, chunk_size) ==
  [k \in 1..(Len(s) \div chunk_size) |->
     SubSeq(s, (k - 1) * chunk_size + 1, k * chunk_size)]

\* chunks(s, chunk_size): [s[i : i + chunk_size] for i in range(0, len(s), chunk_size)]
chunks(s, chunk_size) ==
  LET n == (Len(s) + chunk_size - 1) \div chunk_size
  IN [k \in 1..n |->
        LET i == (k - 1) * chunk_size
            j == IF i + chunk_size < Len(s) THEN i + chunk_size ELSE Len(s)
        IN SubSeq(s, i + 1, j)]

----------------------------------------------------------------------------
(* ComputerTool.scale_coordinates *)

RECURSIVE Gcd(_, _)
Gcd(a, b) == IF b = 0 THEN a ELSE Gcd(b, a % b)

RECURSIVE IsPow2(_)
IsPow2(n) == IF n = 1 THEN TRUE ELSE IF n % 2 = 1 THEN FALSE ELSE IsPow2(n \div 2)

\* The scaling factor tw / w is a double: it is the exact quotient only when
\* the reduced denominator is a power of two.
FactorExact(tw, w) == IsPow2(w \div Gcd(tw, w))

\* round(n / d) for the quotient the code computes in double arithmetic.
\* Off a tie the double is far closer to n/d than to the tie, so the nearest
\* integer is returned.  On an exact .5 tie Python rounds half to even when
\* the quotient was computed exactly; when the factor was inexact the double
\* may fall on either side of the tie, and tieUp says on which.
Round(n, d, exact, tieUp) ==
  LET q == n \div d
      r == n % d
  IN IF 2 * r < d THEN q
     ELSE IF 2 * r > d THEN q + 1
     ELSE IF exact THEN (IF q % 2 = 0 THEN q ELSE q + 1)
     ELSE IF tieUp THEN q + 1 ELSE q

\* abs(dimension["width"] / dimension["height"] - ratio) < 0.02, with
\* ratio = w / h, as an inequality of integers (h > 0)
RatioMatches(dimension, w, h) ==
  50 * Abs(dimension.width * h - w * dimension.height) < dimension.height * h

\* the smallest index of a non-empty set of indices
First(m) == CHOOSE i \in m : \A j \in m : i <= j

\* an entry is the target only if it is wider than the device
NarrowerReversed(dimension, w) == IF dimension.width > w THEN Some(dimension) ELSE None

\* if dimension["width"] < self.width: target_dimension = dimension
Narrower(dimension, w) == IF dimension.width < w THEN Some(dimension) ELSE None

\* the indices, in table order, of the entries whose ratio matches
RatioMatching(w, h) ==
  {i \in 1..Len(MAX_SCALING_TARGETS) : RatioMatches(MAX_SCALING_TARGETS[i], w, h)}

\* the break: the first matching entry ends the scan
FirstMatch(m, w) ==
  IF m = {} THEN None ELSE Narrower(MAX_SCALING_TARGETS[First(m)], w)

\* the for loop over MAX_SCALING_TARGETS: the first entry whose ratio
\* matches ends the scan, and is the target only if narrower
TargetDimension(w, h) == FirstMatch(RatioMatching(w, h), w)

\* a bounds test that needs both axes to be outside
OutOfBoundsBoth(w, h, x, y) == x > w /\ y > h

\* x > self.width or y > self.height
OutOfBounds(w, h, x, y) == x > w \/ y > h

\* round(v / factor), factor = target / device
ScaleUp(v, device, target, tieUp) ==
  Round(v * device, target, FactorExact(target, device), tieUp)

\* a scale down that divides by the factor, as the scale up does
ScaleDownDivides(v, device, target, tieUp) ==
  Round(v * device, target, FactorExact(target, device), tieUp)

\* round(v * factor), factor = target / device
ScaleDown(v, device, target, tieUp) ==
  Round(v * target, device, FactorExact(target, device), tieUp)

\* the part of scale_coordinates after the scan: w and h are integers
scale_to(target_dimension, w, h, source, x, y, fp) ==
  IF IsNone(target_dimension)
  THEN [err |-> "none", x |-> x, y |-> y]
  ELSE IF source = "api"
  THEN IF OutOfBounds(w, h, x, y)
       THEN [err |-> "OutOfBounds", x |-> x, y |-> y]
       ELSE [err |-> "none",
             x |-> ScaleUp(x, w, Val(target_dimension).width, fp.x),
             y |-> ScaleUp(y, h, Val(target_dimension).height, fp.y)]
  ELSE [err |-> "none",
        x |-> ScaleDown(x, w, Val(target_dimension).width, fp.x),
        y |-> ScaleDown(y, h, Val(target_dimension).height, fp.y)]

\* a scaler that tests the bounds before it looks for a target
scale_coordinates_bounds_first(w, h, source, x, y, fp) ==
  IF IsNone(w) \/ IsNone(h)
  THEN [err |-> "GeometryRequired", x |-> x, y |-> y]
  ELSE IF ~scaling_enabled
  THEN [err |-> "none", x |-> x, y |-> y]
  ELSE IF Val(h) = 0
  THEN [err |-> "ZeroDivisionError", x |-> x, y |-> y]
  ELSE IF source = "api" /\ OutOfBounds(Val(w), Val(h), x, y)
  THEN [err |-> "OutOfBounds", x |-> x, y |-> y]
  ELSE scale_to(TargetDimension(Val(w), Val(h)), Val(w), Val(h), source, x, y, fp)

\* source is "api" (ScalingSource.API) or "computer"; w, h are Optional[int];
\* fp = [x |-> BOOLEAN, y |-> BOOLEAN] is the side a tie falls on per axis.
\* ratio = self.width / self.height raises ZeroDivisionError for height 0.
scale_coordinates(w, h, source, x, y, fp) ==
  IF IsNone(w) \/ IsNone(h)
  THEN [err |-> "GeometryRequired", x |-> x, y |-> y]
  ELSE IF ~scaling_enabled
  THEN [err |-> "none", x |-> x, y |-> y]
  ELSE IF Val(h) = 0
  THEN [err |-> "ZeroDivisionError", x |-> x, y |-> y]
  ELSE scale_to(TargetDimension(Val(w), Val(h)), Val(w), Val(h), source, x, y, fp)

----------------------------------------------------------------------------
(* Python str operations on sequences of character codes *)

COMMA == 44

NEWLINE == 10

\* str(n) for n >= 0
RECURSIVE Dec(_)
Dec(n) == IF n < 10 THEN <<48 + n>> ELSE Dec(n \div 10) \o <<48 + (n % 10)>>

StartsAt(s, sep, i) ==
  /\ i + Len(sep) - 1 <= Len(s)
  /\ \A k \in 1..Len(sep) : s[i + k - 1] = sep[k]

\* position of the first occurrence of sep in s, 0 if there is none
FirstOrZero(ps) == IF ps = {} THEN 0 ELSE First(ps)

Find(s, sep) == FirstOrZero({i \in 1..Len(s) : StartsAt(s, sep, i)})

\* s.split(sep)
RECURSIVE Split(_, _)
RECURSIVE SplitAt(_, _, _)
SplitAt(s, sep, i) ==
  IF i = 0 THEN <<s>>
  ELSE <<SubSeq(s, 1, i - 1)>> \o Split(SubSeq(s, i + Len(sep), Len(s)), sep)

Split(s, sep) == SplitAt(s, sep, Find(s, sep))

\* the ASCII whitespace str.strip() and int() drop
IsSpace(c) == c \in {32, 9, 10, 11, 12, 13}

IsDigit(c) == c \in 48..57

\* s.strip()
RECURSIVE Strip(_)
Strip(s) ==
  IF s = <<>> THEN s
  ELSE IF IsSpace(s[1]) THEN Strip(Tail(s))
  ELSE IF IsSpace(s[Len(s)]) THEN Strip(SubSeq(s, 1, Len(s) - 1))
  ELSE s

RECURSIVE DigitsValue(_)
DigitsValue(s) ==
  IF s = <<>> THEN 0 ELSE 10 * DigitsValue(SubSeq(s, 1, Len(s) - 1)) + (s[Len(s)] - 48)

\* decimal digits, with single underscores (95) allowed between two digits
IsDigits(u) ==
  /\ u # <<>>
  /\ \A k \in 1..Len(u) : IsDigit(u[k]) \/ u[k] = 95
  /\ IsDigit(u[1]) /\ IsDigit(u[Len(u)])
  /\ \A k \in 1..(Len(u) - 1) : ~(u[k] = 95 /\ u[k + 1] = 95)

\* the digits u of an integer literal, negative if neg
ParseDigits(u, neg) ==
  IF IsDigits(u)
  THEN [err |-> "none",
        val |-> IF neg THEN 0 - DigitsValue(SelectSeq(u, IsDigit))
                ELSE DigitsValue(SelectSeq(u, IsDigit))]
  ELSE [err |-> "ValueError", val |-> 0]

\* an integer literal t without surrounding whitespace: 43 is +, 45 is -
ParseSigned(t) ==
  IF t # <<>> /\ t[1] \in {43, 45}
  THEN ParseDigits(Tail(t), t[1] = 45)
  ELSE ParseDigits(t, FALSE)

\* int(s) for ASCII text: surrounding whitespace is dropped, one sign is
\* allowed, the rest must be decimal digits, with single underscores between
\* them allowed; anything else raises ValueError
ParseInt(s) == ParseSigned(Strip(s))

----------------------------------------------------------------------------
(* Commands sent to the sandbox and the other steps of a dispatch *)

\* docker exec ... sh -c '<command>' through command_run; prefix is the
\* display prefix the command string starts with (<<>> for none)
Exec(cmd, prefix, args, text) ==
  [op |-> "exec", cmd |-> cmd, prefix |-> prefix, args |-> args, text |-> text]

\* time.sleep(self._screenshot_delay)
Sleep == [op |-> "sleep", cmd |-> "", prefix |-> <<>>, args |-> <<screenshot_delay>>, text |-> <<>>]

\* docker cp <container>:<path> <path> through command_run
CopyOut == [op |-> "cp", cmd |-> "docker cp", prefix |-> <<>>, args |-> <<>>, text |-> <<>>]

\* reading and base64 encoding the copied file
ReadImage(img) == [op |-> "read", cmd |-> "", prefix |-> <<>>, args |-> <<>>, text |-> img]

Geom(w, h, d, p, x) ==
  [width |-> w, height |-> h, display_num |-> d, display_prefix |-> p, xdotool |-> x]

\* lambda x: None if not x else int(x)
OptionalInt(p) == [err |-> p.err, val |-> Some(p.val)]

ParseField(x) ==
  IF x = <<>> THEN [err |-> "none", val |-> None] ELSE OptionalInt(ParseInt(x))

\* map(lambda ..., result.output.split(","))
ParseFields(parts) == [k \in 1..Len(parts) |-> ParseField(parts[k])]

\* f"DISPLAY=:{self.display_num} " is <<n>>, "" is <<>>
DisplayPrefix(d) == IF IsNone(d) THEN <<>> ELSE d

OrDefault(o, default) == IF IsNone(o) THEN default ELSE Val(o)

\* the assignments of get_screen_info; self.xdotool is the prefix followed
\* by "xdotool"
StoreGeometry(w, h, d) == Geom(Some(w), Some(h), d, DisplayPrefix(d), Some(DisplayPrefix(d)))

\* the unpacking of the three values and what follows it
get_screen_info_parsed(g, vals) ==
  IF Len(vals) # 3 \/ \E k \in 1..Len(vals) : vals[k].err # "none"
  THEN [err |-> "GeometryUnavailable",
        events |-> <<Exec("echo", <<>>, <<>>, <<>>)>>, geom |-> g]
  ELSE [err |-> "none", events |-> <<Exec("echo", <<>>, <<>>, <<>>)>>,
        geom |-> StoreGeometry(OrDefault(vals[1].val, 1080),
                               OrDefault(vals[2].val, 1920), vals[3].val)]

\* a bootstrap without the assert on result.error
get_screen_info_ignores_stderr(g, reply) ==
  IF reply.out = <<>>
  THEN [err |-> "GeometryUnavailable",
        events |-> <<Exec("echo", <<>>, <<>>, <<>>)>>, geom |-> g]
  ELSE get_screen_info_parsed(g, ParseFields(Split(reply.out, <<COMMA>>)))

\* get_screen_info: reply is what the query printed, [out, err]; the query
\* goes through shell with take_screenshot=False, so it is the command alone
get_screen_info(g, reply) ==
  IF reply.err # <<>> \/ reply.out = <<>>
  THEN [err |-> "GeometryUnavailable",
        events |-> <<Exec("echo", <<>>, <<>>, <<>>)>>, geom |-> g]
  ELSE get_screen_info_parsed(g, ParseFields(Split(reply.out, <<COMMA>>)))

\* a capture that resizes to the size of the device, whatever sz is
CaptureCommandsToDeviceSize(g1, sz) ==
  <<Exec("mkdir", <<>>, <<>>, <<>>),
    Exec("scrot", g1.display_prefix, <<>>, <<>>)>>
  \o (IF scaling_enabled
      THEN <<Exec("convert", <<>>, <<<<"w", Val(g1.width)>>, <<"h", Val(g1.height)>>>>, <<>>)>>
      ELSE <<>>)
  \o <<CopyOut>>

\* the commands of a capture: sz is the size the file is resized to
CaptureCommandsOf(g1, sz) ==
  <<Exec("mkdir", <<>>, <<>>, <<>>),
    Exec("scrot", g1.display_prefix, <<>>, <<>>)>>
  \o (IF scaling_enabled
      THEN <<Exec("convert", <<>>, <<<<"w", sz.x>>, <<"h", sz.y>>>>, <<>>)>>
      ELSE <<>>)
  \o <<CopyOut>>

\* the end of screenshot: ev are the commands issued so far
capture_file(g1, ev, env) ==
  IF env.exists
  THEN [err |-> "none", events |-> ev \o <<ReadImage(env.img)>>, geom |-> g1,
        res |-> ToolResult(Some(<<>>), Some(env.cperr), Some(env.img), None)]
  ELSE [err |-> "CaptureFailed", events |-> ev, geom |-> g1,
        res |-> ToolResult(None, None, None, None)]

\* screenshot from its assert on: g1 is the geometry, before the commands
\* of a bootstrap
capture(g1, before, env) ==
  IF ~(TruthyInt(g1.width) /\ TruthyInt(g1.height))
  THEN [err |-> "AssertionError", events |-> before, geom |-> g1,
        res |-> ToolResult(None, None, None, None)]
  ELSE capture_file(g1,
         before \o CaptureCommandsOf(g1,
                     scale_coordinates(g1.width, g1.height, "computer",
                                       Val(g1.width), Val(g1.height), env.fp)),
         env)

\* screenshot after the bootstrap boot
capture_after(boot, env) ==
  IF boot.err # "none"
  THEN [err |-> boot.err, events |-> boot.events, geom |-> boot.geom,
        res |-> ToolResult(None, None, None, None)]
  ELSE capture(boot.geom, boot.events, env)

\* a capture that queries the geometry every time
screenshot_always_queries(g, env) == capture_after(get_screen_info(g, env.query), env)

\* screenshot: env.query is the reply to a bootstrap query, env.exists says
\* whether the file is on the host after the copy, env.cperr is the stderr
\* of the copy, env.img the encoded file
screenshot(g, env) ==
  IF IsNone(g.width) \/ IsNone(g.height)
  THEN capture_after(get_screen_info(g, env.query), env)
  ELSE capture(g, <<>>, env)

\* a command followed by a capture without the settle delay
shell_captured_no_settle(cmd, reply, s) ==
  [err |-> s.err, events |-> <<cmd>> \o s.events, geom |-> s.geom,
   res |-> ToolResult(Some(reply.out), Some(reply.err), s.res.base64_image, None)]

\* the take_screenshot branch of shell: the command, the settle delay and
\* the capture s
shell_captured(cmd, reply, s) ==
  [err |-> s.err, events |-> <<cmd, Sleep>> \o s.events, geom |-> s.geom,
   res |-> ToolResult(Some(reply.out), Some(reply.err), s.res.base64_image, None)]

\* shell: cmd is the command, reply what it printed; with take_screenshot the
\* settle delay and a capture follow the command
shell(g, cmd, reply, take_screenshot, env) ==
  IF take_screenshot
  THEN shell_captured(cmd, reply, screenshot(g, env))
  ELSE [err |-> "none", events |-> <<cmd>>, geom |-> g,
        res |-> ToolResult(Some(reply.out), Some(reply.err), None, None)]

----------------------------------------------------------------------------
(* ComputerTool.__call__ *)

\* str(n)
IntStr(n) == IF n < 0 THEN <<45>> \o Dec(0 - n) ELSE Dec(n)

\* f"width: {self.width}, height: {self.height}, display_num: {self.display_num}"
Summary(g) ==
  <<119, 105, 100, 116, 104, 58, 32>> \o IntStr(Val(g.width))
  \o <<44, 32, 104, 101, 105, 103, 104, 116, 58, 32>> \o IntStr(Val(g.height))
  \o <<44, 32, 100, 105, 115, 112, 108, 97, 121, 95, 110, 117, 109, 58, 32>> \o (IF IsNone(g.display_num) THEN <<78, 111, 110, 101>> ELSE IntStr(Val(g.display_num)))

\* f"X={x},Y={y}"
Location(x, y) == <<88, 61>> \o IntStr(x) \o <<44, 89, 61>> \o IntStr(y)

\* a text argument that is not a str
NonStr == Some(<<-1>>)

IsStr(text) == \A k \in 1..Len(Val(text)) : Val(text)[k] >= 0

\* a coordinate argument: tuple says it is a list or a tuple, ints that
\* every item is an int, items are the items
Coord(tuple, ints, items) == [tuple |-> tuple, ints |-> ints, items |-> items]

\* a check that lets a negative item through
ValidCoordinateAnySign(c) ==
  /\ c.tuple /\ Len(c.items) = 2
  /\ c.ints

\* isinstance(coordinate, (list, tuple)) and len(coordinate) == 2 and
\* all(isinstance(i, int) and i >= 0 for i in coordinate)
ValidCoordinate(c) ==
  /\ c.tuple /\ Len(c.items) = 2
  /\ c.ints /\ \A k \in 1..Len(c.items) : c.items[k] >= 0

\* a table with the buttons of right_click and middle_click exchanged
ClickArgsExchanged(action) ==
  IF action = "scroll_up" THEN <<<<"repeat", 1>>, <<"button", 4>>>>
  ELSE IF action = "scroll_down" THEN <<<<"repeat", 1>>, <<"button", 5>>>>
  ELSE IF action = "left_click" THEN <<<<"button", 1>>>>
  ELSE IF action = "right_click" THEN <<<<"button", 2>>>>
  ELSE IF action = "middle_click" THEN <<<<"button", 3>>>>
  ELSE <<<<"repeat", 2>>, <<"delay", 500>>, <<"button", 1>>>>

\* the click command of a click or scroll action
ClickArgs(action) ==
  IF action = "scroll_up" THEN <<<<"repeat", 1>>, <<"button", 4>>>>
  ELSE IF action = "scroll_down" THEN <<<<"repeat", 1>>, <<"button", 5>>>>
  ELSE IF action = "left_click" THEN <<<<"button", 1>>>>
  ELSE IF action = "right_click" THEN <<<<"button", 3>>>>
  ELSE IF action = "middle_click" THEN <<<<"button", 2>>>>
  ELSE <<<<"repeat", 2>>, <<"delay", 500>>, <<"button", 1>>>>

Raise(kind, g) ==
  [err |-> kind, events |-> <<>>, geom |-> g, res |-> ToolResult(None, None, None, None)]

\* "".join(r.<field> or "" for r in results)
RECURSIVE JoinField(_, _)
JoinField(results, field) ==
  IF results = <<>> THEN <<>>
  ELSE (IF Truthy(Head(results)[field]) THEN Val(Head(results)[field]) ELSE <<>>)
       \o JoinField(Tail(results), field)

RECURSIVE Flatten(_)
Flatten(seqs) == IF seqs = <<>> THEN <<>> ELSE Head(seqs) \o Flatten(Tail(seqs))

\* the return of the get_screen_info branch: s is the capture
get_screen_info_result(s) ==
  IF s.err # "none"
  THEN [err |-> s.err, events |-> s.events, geom |-> s.geom,
        res |-> ToolResult(None, None, None, None)]
  ELSE [err |-> "none", events |-> s.events, geom |-> s.geom,
        res |-> ToolResult(Some(Summary(s.geom)), s.res.error, s.res.base64_image, None)]

\* the action == "get_screen_info" branch: the bootstrap, then a capture
\* with the geometry it stored
call_get_screen_info(g, env) ==
  get_screen_info_result(capture_after(get_screen_info(g, env.query), env))

\* a mouse branch that sends the command first and raises the error of the
\* scaler after it
move_to_raises_late(g, action, p, env) ==
  [shell(g, Exec(IF action = "mouse_move" THEN "mousemove" ELSE "drag",
                 Val(g.xdotool), <<<<"x", p.x>>, <<"y", p.y>>>>, <<>>),
         env.replies[1], TRUE, env)
   EXCEPT !.err = IF p.err # "none" THEN p.err ELSE @]

\* the end of the mouse branch: p is the scaled coordinate
move_to(g, action, p, env) ==
  IF p.err # "none" THEN Raise(p.err, g)
  ELSE shell(g, Exec(IF action = "mouse_move" THEN "mousemove" ELSE "drag",
                     Val(g.xdotool), <<<<"x", p.x>>, <<"y", p.y>>>>, <<>>),
             env.replies[1], TRUE, env)

\* the mouse_move / left_click_drag branch
call_mouse(g, action, text, coordinate, env) ==
  IF IsNone(coordinate) THEN Raise("InvalidArgument", g)
  ELSE IF ~IsNone(text) THEN Raise("InvalidArgument", g)
  ELSE IF ~ValidCoordinate(Val(coordinate)) THEN Raise("InvalidArgument", g)
  ELSE move_to(g, action,
               scale_coordinates(g.width, g.height, "api",
                                 Val(coordinate).items[1], Val(coordinate).items[2], env.fp),
               env)

\* the ToolResults of the chunk commands, sent without a capture; the text
\* of a command is its payload, before quoting
type_chunks(g, cs, env) ==
  [k \in 1..Len(cs) |->
     shell(g, Exec("type", Val(g.xdotool), <<<<"delay", TYPING_DELAY_MS>>>>, cs[k]),
           env.replies[k], FALSE, env)]

EventsOf(results) == Flatten([k \in 1..Len(results) |-> results[k].events])

ResultsOf(results) == [k \in 1..Len(results) |-> results[k].res]

\* the return of a type dispatch: results of the chunks, s the capture
type_result(results, s) ==
  IF s.err # "none"
  THEN [err |-> s.err, events |-> EventsOf(results) \o s.events, geom |-> s.geom,
        res |-> ToolResult(None, None, None, None)]
  ELSE [err |-> "none", events |-> EventsOf(results) \o s.events, geom |-> s.geom,
        res |-> ToolResult(Some(JoinField(ResultsOf(results), "output")),
                           Some(JoinField(ResultsOf(results), "error")),
                           s.res.base64_image, None)]

\* the key / type branch
call_keyboard(g, action, text, coordinate, env) ==
  IF IsNone(text) THEN Raise("InvalidArgument", g)
  ELSE IF ~IsNone(coordinate) THEN Raise("InvalidArgument", g)
  ELSE IF ~IsStr(text) THEN Raise("TypeError", g)
  ELSE IF action = "key"
  THEN shell(g, Exec("key", Val(g.xdotool), <<>>, Val(text)), env.replies[1], TRUE, env)
  ELSE type_result(type_chunks(g, chunks(Val(text), TYPING_GROUP_SIZE), env),
                   screenshot(g, env))

\* result.output or ""
OrEmpty(o) == IF Truthy(o) THEN Val(o) ELSE <<>>

\* int(parts[1].split("\n")[0]) for parts = output.split(key)
AxisFrom(parts) ==
  IF Len(parts) < 2 THEN [err |-> "IndexError", val |-> 0]
  ELSE ParseInt(Split(parts[2], <<NEWLINE>>)[1])

\* the return of cursor_position: r is the query, p the scaled location
cursor_result(r, p) ==
  IF p.err # "none"
  THEN [err |-> p.err, events |-> r.events, geom |-> r.geom,
        res |-> ToolResult(None, None, None, None)]
  ELSE [err |-> "none", events |-> r.events, geom |-> r.geom,
        res |-> [r.res EXCEPT !.output = Some(Location(p.x, p.y))]]

\* px and py are the parsed X and Y; X is parsed first
cursor_parsed(g, r, px, py, env) ==
  IF px.err # "none"
  THEN [err |-> px.err, events |-> r.events, geom |-> g,
        res |-> ToolResult(None, None, None, None)]
  ELSE IF py.err # "none"
  THEN [err |-> py.err, events |-> r.events, geom |-> g,
        res |-> ToolResult(None, None, None, None)]
  ELSE cursor_result(r, scale_coordinates(g.width, g.height, "computer",
                                          px.val, py.val, env.fp))

cursor_located(g, r, env) ==
  cursor_parsed(g, r,
                AxisFrom(Split(OrEmpty(r.res.output), <<88, 61>>)),
                AxisFrom(Split(OrEmpty(r.res.output), <<89, 61>>)), env)

\* the cursor_position branch: env.replies[1].out is the location report
call_cursor_position(g, env) ==
  cursor_located(g, shell(g, Exec("getmouselocation", Val(g.xdotool), <<>>, <<>>),
                          env.replies[1], FALSE, env), env)

\* the branch of the actions that take no argument
call_plain(g, action, text, coordinate, env) ==
  IF ~IsNone(text) THEN Raise("InvalidArgument", g)
  ELSE IF ~IsNone(coordinate) THEN Raise("InvalidArgument", g)
  ELSE IF action = "screenshot" THEN screenshot(g, env)
  ELSE IF action = "cursor_position" THEN call_cursor_position(g, env)
  ELSE shell(g, Exec("click", Val(g.xdotool), ClickArgs(action), <<>>),
             env.replies[1], TRUE, env)

MouseActions == {"mouse_move", "left_click_drag"}

KeyboardActions == {"key", "type"}

ClickActions ==
  {"left_click", "right_click", "double_click", "middle_click", "scroll_up", "scroll_down"}

\* a tuple of kinds from which scroll_down was left out
PlainActionsWithoutScrollDown ==
  (ClickActions \ {"scroll_down"}) \cup {"screenshot", "cursor_position"}

PlainActions == ClickActions \cup {"screenshot", "cursor_position"}


\* a dispatcher that rejects an unknown action kind before it looks at the
\* geometry
call_unknown_first(g, action, text, coordinate, env) ==
  IF action = "get_screen_info" THEN call_get_screen_info(g, env)
  ELSE IF action \notin MouseActions \cup KeyboardActions \cup PlainActions
  THEN Raise("InvalidAction", g)
  ELSE IF IsNone(g.width) \/ IsNone(g.height) THEN Raise("GeometryRequired", g)
  ELSE IF action \in MouseActions THEN call_mouse(g, action, text, coordinate, env)
  ELSE IF action \in KeyboardActions THEN call_keyboard(g, action, text, coordinate, env)
  ELSE call_plain(g, action, text, coordinate, env)

\* ComputerTool.__call__: the result has the error raised ("none" for a
\* return), the commands and steps issued in order, the geometry the
\* instance is left with, and the ToolResult returned
call(g, action, text, coordinate, env) ==
  IF action = "get_screen_info" THEN call_get_screen_info(g, env)
  ELSE IF IsNone(g.width) \/ IsNone(g.height) THEN Raise("GeometryRequired", g)
  ELSE IF action \in MouseActions THEN call_mouse(g, action, text, coordinate, env)
  ELSE IF action \in KeyboardActions THEN call_keyboard(g, action, text, coordinate, env)
  ELSE IF action \in PlainActions THEN call_plain(g, action, text, coordinate, env)
  ELSE Raise("InvalidAction", g)

----------------------------------------------------------------------------
(* Values the variables hold before the operation they record has run *)

NoDispatch ==
  [action |-> "", text |-> None, coordinate |-> None,
   query |-> [out |-> <<>>, err |-> <<>>], err |-> "none",
   events |-> <<>>, result |-> ToolResult(None, None, None, None),
   bootedBefore |-> FALSE, geomBefore |-> <<None, None, None, <<>>, None>>]

NoScale ==
  [op |-> "init", x |-> 0, y |-> 0,
   r |-> [err |-> "none", x |-> 0, y |-> 0],
   back |-> [err |-> "none", x |-> 0, y |-> 0]]

NoAdd ==
  [op |-> "init", a |-> ToolResult(None, None, None, None),
   b |-> ToolResult(None, None, None, None),
   c |-> ToolResult(None, None, None, None),
   r |-> [err |-> "none", res |-> ToolResult(None, None, None, None)],
   rr |-> [err |-> "none", res |-> ToolResult(None, None, None, None)]]

\* no call is in progress: stack holds the frames of the calls in progress,
\* innermost last
NoRun ==
  [stack |-> <<>>, cmds |-> 0, caps |-> 0, err |-> "none",
   action |-> "", text |-> None, coordinate |-> None]

\* ComputerTool.__init__
InitTool ==
  /\ xdotool = None
  /\ width = None
  /\ height = None
  /\ display_num = None
  /\ display_prefix = <<>>
  /\ booted = FALSE
  /\ pc = "idle"
  /\ last = NoDispatch

----------------------------------------------------------------------------
(* One tool instance and the dispatches on it.  A dispatch runs to its end *)
(* in one step and leaves its record in last; the caller then takes the    *)
(* result (or the exception) and the instance is idle again.               *)

\* widths, heights and display numbers the sandbox reports; <<120>> is "x",
\* <<49, 95, 52, 48, 48>> is "1_400", <<95, 49>> is "_1"
WidthFields == {<<>>, Dec(1400), Dec(2560), <<120>>, <<49, 95, 52, 48, 48>>}

HeightFields == {<<>>, Dec(1050), Dec(1600), Dec(0), <<32>> \o Dec(1050), <<95, 49>>}

DisplayFields == {<<>>, Dec(1)}

Join3(a, b, c) == a \o <<COMMA>> \o b \o <<COMMA>> \o c

\* what echo $WIDTH,$HEIGHT,$DISPLAY_NUM prints, with and without the
\* newline, and outputs of another shape
QueryOutputs ==
  {Join3(w, h, d) \o nl : w \in WidthFields, h \in HeightFields,
                          d \in DisplayFields, nl \in {<<>>, <<NEWLINE>>}}
  \cup {<<>>, Dec(1400) \o <<COMMA>> \o Dec(1050),
        Join3(Dec(1400), Dec(1050), Dec(1)) \o <<COMMA>> \o Dec(7)}

QueryReplies ==
  {[out |-> o, err |-> <<>>] : o \in QueryOutputs}
  \cup {[out |-> Join3(Dec(1400), Dec(1050), <<>>), err |-> <<101>>]}

\* stdout and stderr of a command
ShellReplies == {[out |-> <<>>, err |-> <<>>], [out |-> <<111>>, err |-> <<101>>]}

\* what xdotool getmouselocation --shell prints
MouseReplies ==
  {[out |-> o, err |-> <<>>] :
     o \in {<<88, 61, 55, 48, 48, 10, 89, 61, 53, 50, 53, 10, 83, 67, 82, 69, 69, 78, 61, 48, 10, 87, 73, 78, 68, 79, 87, 61, 49, 10>>,
            <<88, 61, 49, 55, 53, 10, 89, 61, 51, 10, 83, 67, 82, 69, 69, 78, 61, 48, 10, 87, 73, 78, 68, 79, 87, 61, 49, 10>>,
            <<88, 61, 53, 10>>,
            <<88, 61, 10, 89, 61, 49, 10>>,
            <<>>}}

\* outcomes of the copy out of the sandbox
Captures ==
  {[exists |-> FALSE, cperr |-> <<101>>, img |-> <<>>],
   [exists |-> TRUE, cperr |-> <<>>, img |-> <<105>>],
   [exists |-> TRUE, cperr |-> <<101>>, img |-> <<>>]}

FP == [x : BOOLEAN, y : BOOLEAN]

Env(query, replies, cap, fp) ==
  [query |-> query, replies |-> replies, exists |-> cap.exists,
   cperr |-> cap.cperr, img |-> cap.img, fp |-> fp]

NoReply == [out |-> <<>>, err |-> <<>>]

NoFP == [x |-> FALSE, y |-> FALSE]

\* a text of n characters, a..z repeated
TextOf(n) == [i \in 1..n |-> 97 + ((i - 1) % 26)]

MaxChunks == (MaxTextLen + TYPING_GROUP_SIZE - 1) \div TYPING_GROUP_SIZE

TextArgs == {None, Some(TextOf(2))}

CoordArgs ==
  {None,
   Some(Coord(TRUE, TRUE, <<0, 0>>)), Some(Coord(TRUE, TRUE, <<640, 400>>)),
   Some(Coord(TRUE, TRUE, <<64, 1>>)), Some(Coord(TRUE, TRUE, <<2000, 400>>)),
   Some(Coord(TRUE, TRUE, <<2561, 400>>)), Some(Coord(TRUE, TRUE, <<640, 1601>>)),
   Some(Coord(TRUE, TRUE, <<0 - 1, 5>>)), Some(Coord(TRUE, TRUE, <<5>>)),
   Some(Coord(TRUE, TRUE, <<1, 2, 3>>)), Some(Coord(TRUE, FALSE, <<1, 2>>)),
   Some(Coord(FALSE, FALSE, <<1, 2>>))}

GeomNow == Geom(width, height, display_num, display_prefix, xdotool)

\* the call has run: r is what call gives, query what the sandbox printed
\* for a geometry query.  booted records that a
\* get_screen_info dispatch got past its bootstrap.
Completed(action, text, coordinate, query, r) ==
  /\ width' = r.geom.width
  /\ height' = r.geom.height
  /\ display_num' = r.geom.display_num
  /\ display_prefix' = r.geom.display_prefix
  /\ xdotool' = r.geom.xdotool
  /\ booted' = (booted \/ (action = "get_screen_info" /\ r.err # "GeometryUnavailable"))
  /\ pc' = "returned"
  /\ last' = [action |-> action, text |-> text, coordinate |-> coordinate,
              query |-> query, err |-> r.err, events |-> r.events, result |-> r.res,
              bootedBefore |-> booted, geomBefore |-> geom]
  /\ UNCHANGED <<sc, tr, run>>

\* one call of Computer(action=..., text=..., coordinate=...)
Dispatch(action, text, coordinate, env) ==
  /\ pc = "idle"
  /\ Completed(action, text, coordinate, env.query,
               call(GeomNow, action, text, coordinate, env))

DispatchGetScreenInfo ==
  \E q \in QueryReplies, cap \in Captures, t \in TextArgs :
    Dispatch("get_screen_info", t, None, Env(q, <<NoReply>>, cap, NoFP))

DispatchMouse ==
  \E a \in MouseActions, t \in TextArgs, c \in CoordArgs,
     rep \in ShellReplies, cap \in Captures, fp \in FP :
    Dispatch(a, t, c, Env(NoReply, <<rep>>, cap, fp))

DispatchKey ==
  \E t \in TextArgs \cup {NonStr, Some(<<>>)}, c \in {None, Some(Coord(TRUE, TRUE, <<0, 0>>))},
     rep \in ShellReplies, cap \in Captures :
    Dispatch("key", t, c, Env(NoReply, <<rep>>, cap, NoFP))

DispatchType ==
  \E t \in {None, NonStr} \cup {Some(TextOf(n)) : n \in 0..MaxTextLen},
     c \in {None, Some(Coord(TRUE, TRUE, <<0, 0>>))},
     reps \in [1..MaxChunks -> ShellReplies], cap \in Captures :
    Dispatch("type", t, c, Env(NoReply, reps, cap, NoFP))

DispatchClick ==
  \E a \in ClickActions, t \in TextArgs, c \in {None, Some(Coord(TRUE, TRUE, <<0, 0>>))},
     rep \in ShellReplies, cap \in Captures :
    Dispatch(a, t, c, Env(NoReply, <<rep>>, cap, NoFP))

DispatchScreenshot ==
  \E t \in TextArgs, c \in {None, Some(Coord(TRUE, TRUE, <<0, 0>>))}, cap \in Captures :
    Dispatch("screenshot", t, c, Env(NoReply, <<NoReply>>, cap, NoFP))

DispatchCursorPosition ==
  \E t \in TextArgs, c \in {None, Some(Coord(TRUE, TRUE, <<0, 0>>))},
     rep \in MouseReplies, fp \in FP :
    Dispatch("cursor_position", t, c, Env(NoReply, <<rep>>, CHOOSE cap \in Captures : TRUE, fp))

\* an action kind outside Action
DispatchUnknown ==
  \E t \in TextArgs, c \in {None, Some(Coord(TRUE, TRUE, <<0, 0>>))} :
    Dispatch("zoom", t, c, Env(NoReply, <<NoReply>>, CHOOSE cap \in Captures : TRUE, NoFP))

\* the call has returned or raised; its result is the caller's
Return ==
  /\ pc = "returned"
  /\ pc' = "idle"
  /\ last' = NoDispatch
  /\ UNCHANGED <<geom, booted, sc, tr, run>>

Init == InitTool /\ sc = NoScale /\ tr = NoAdd /\ run = NoRun

Next ==
  \/ DispatchGetScreenInfo
  \/ DispatchMouse
  \/ DispatchKey
  \/ DispatchType
  \/ DispatchClick
  \/ DispatchScreenshot
  \/ DispatchCursorPosition
  \/ DispatchUnknown
  \/ Return

Spec == Init /\ [][Next]_vars

----------------------------------------------------------------------------
(* The scaler alone: a tool whose geometry is already established, and one *)
(* call (or one call each way) of scale_coordinates                        *)

Geometries ==
  { <<1024, 768>>, <<1280, 800>>, <<1366, 768>>,
    <<2560, 1600>>, <<2048, 1536>>, <<1920, 1080>>,
    <<1400, 1050>>, <<1025, 758>>, <<1440, 900>>,
    <<1080, 1920>>, <<1280, 1024>>, <<800, 600>>, <<1360, 768>> }

Probe(n) == {400, n, n + 1}

ScaleInputs(w, h) ==
  ((0..MaxCoord) \X Probe(h)) \cup (Probe(w) \X (0..MaxCoord))

InitScale ==
  /\ \E g \in Geometries : width = Some(g[1]) /\ height = Some(g[2])
  /\ xdotool = Some(<<>>)
  /\ display_num = None
  /\ display_prefix = <<>>
  /\ booted = TRUE
  /\ pc = "idle"
  /\ last = NoDispatch
  /\ sc = NoScale
  /\ tr = NoAdd
  /\ run = NoRun

\* scale_coordinates(ScalingSource.API, x, y)
ScaleApi ==
  /\ sc.op = "init"
  /\ \E p \in ScaleInputs(Val(width), Val(height)), fp \in FP :
       sc' = [op |-> "api", x |-> p[1], y |-> p[2],
              r |-> scale_coordinates(width, height, "api", p[1], p[2], fp),
              back |-> NoScale.back]
  /\ UNCHANGED <<geom, booted, pc, last, tr, run>>

\* scale_coordinates(ScalingSource.COMPUTER, x, y)
ScaleComputer ==
  /\ sc.op = "init"
  /\ \E p \in ScaleInputs(Val(width), Val(height)), fp \in FP :
       sc' = [op |-> "computer", x |-> p[1], y |-> p[2],
              r |-> scale_coordinates(width, height, "computer", p[1], p[2], fp),
              back |-> NoScale.back]
  /\ UNCHANGED <<geom, booted, pc, last, tr, run>>

\* scale_coordinates(API, x, y) and then scale_coordinates(COMPUTER, ...) of
\* what it returned
RoundTrip ==
  /\ sc.op = "init"
  /\ \E p \in ScaleInputs(Val(width), Val(height)), fp \in FP, fq \in FP :
       LET r1 == scale_coordinates(width, height, "api", p[1], p[2], fp)
       IN sc' = [op |-> "roundtrip", x |-> p[1], y |-> p[2], r |-> r1,
                 back |-> IF r1.err = "none"
                          THEN scale_coordinates(width, height, "computer", r1.x, r1.y, fq)
                          ELSE r1]
  /\ UNCHANGED <<geom, booted, pc, last, tr, run>>

NextScale == ScaleApi \/ ScaleComputer \/ RoundTrip

SpecScale == InitScale /\ [][NextScale]_vars

----------------------------------------------------------------------------
(* The scan of the table alone, over geometries of many aspect ratios *)

\* a geometry is a ratio a : b on a small device and, 40 times the size, on
\* a large one
InitSelect ==
  /\ \E a \in 1..MaxRatio, b \in 1..MaxRatio, k \in {1, 40} :
       width = Some(a * k) /\ height = Some(b * k)
  /\ xdotool = Some(<<>>)
  /\ display_num = None
  /\ display_prefix = <<>>
  /\ booted = TRUE
  /\ pc = "idle"
  /\ last = NoDispatch
  /\ sc = NoScale
  /\ tr = NoAdd
  /\ run = NoRun

\* the for loop of scale_coordinates: matches are the entries its ratio test
\* accepts, target is target_dimension after the loop
SelectTarget ==
  /\ sc.op = "init"
  /\ sc' = [op |-> "select", x |-> 0, y |-> 0, r |-> NoScale.r, back |-> NoScale.back,
            matches |-> RatioMatching(Val(width), Val(height)),
            target |-> TargetDimension(Val(width), Val(height))]
  /\ UNCHANGED <<geom, booted, pc, last, tr, run>>

SpecSelect == InitSelect /\ [][SelectTarget]_vars

----------------------------------------------------------------------------
(* ToolResult combination alone: one a + b *)

\* a field is absent, empty or one of two texts
FieldValues == {None, Some(<<>>), Some(<<1>>), Some(<<2>>)}

Results ==
  {ToolResult(o, e, i, y) : o \in FieldValues, e \in FieldValues,
                            i \in FieldValues, y \in {None, Some(<<1>>)}}

InitAdd ==
  /\ InitTool
  /\ sc = NoScale
  /\ tr = NoAdd
  /\ run = NoRun

\* a + b
Combine ==
  /\ tr.op = "init"
  /\ \E a \in Results, b \in Results :
       tr' = [op |-> "add", a |-> a, b |-> b, c |-> NoAdd.c,
              r |-> Add(a, b), rr |-> NoAdd.rr]
  /\ UNCHANGED <<geom, booted, pc, last, sc, run>>

\* an operand of a three-way combination: each field is absent, empty or
\* the one-character text tag
Operands(tag) ==
  {ToolResult(o, e, i, y) : o \in {None, Some(<<>>), Some(<<tag>>)},
                            e \in {None, Some(<<>>), Some(<<tag>>)},
                            i \in {None, Some(<<>>), Some(<<tag>>)},
                            y \in {None, Some(<<>>), Some(<<tag>>)}}

\* r + c where r is the outcome of a + b: a raise in a + b ends the
\* expression
AddTo(r, c) == IF r.err # "none" THEN r ELSE Add(r.res, c)

\* a + r where r is the outcome of b + c
AddFrom(a, r) == IF r.err # "none" THEN r ELSE Add(a, r.res)

\* (a + b) + c and a + (b + c)
Associate ==
  /\ tr.op = "init"
  /\ \E a \in Operands(1), b \in Operands(2), c \in Operands(3) :
       tr' = [op |-> "assoc", a |-> a, b |-> b, c |-> c,
              r |-> AddTo(Add(a, b), c), rr |-> AddFrom(a, Add(b, c))]
  /\ UNCHANGED <<geom, booted, pc, last, sc, run>>

NextAdd == Combine \/ Associate

SpecAdd == InitAdd /\ [][NextAdd]_vars

----------------------------------------------------------------------------
(* The calls of one operation, step by step: __call__, shell, screenshot   *)
(* and get_screen_info call one another, and run.stack holds the frames of *)
(* the calls in progress.  A step runs the innermost call up to its next   *)
(* call, return or raise; a raise ends the whole operation.                *)

\* a frame: the function, the place it is at, the take_screenshot argument
\* (shell) and the number of chunks still to send (__call__ of type)
Frame(fn, at, take, left) == [fn |-> fn, at |-> at, take |-> take, left |-> left]

ShellFrame(take_screenshot) == Frame("shell", "run", take_screenshot, 0)

ScreenshotFrame == Frame("screenshot", "boot", FALSE, 0)

GetScreenInfoFrame == Frame("get_screen_info", "query", FALSE, 0)

\* take_screenshot left out of a call of shell inside screenshot, so that the
\* default applies
capture_take_screenshot_default == TRUE

\* take_screenshot=False of the shell calls of screenshot
capture_take_screenshot == FALSE

Top == run.stack[Len(run.stack)]

At(fn, at) == run.stack # <<>> /\ Top.fn = fn /\ Top.at = at

\* the frames of the callers of the innermost call
Callers == SubSeq(run.stack, 1, Len(run.stack) - 1)

\* the innermost call goes on at the place at, after the calls in frames
Goto(at, frames) == Callers \o <<[Top EXCEPT !.at = at]>> \o frames

\* the step changes run alone
Step(r) ==
  /\ run' = r
  /\ UNCHANGED <<geom, booted, pc, last, sc, tr>>

\* the innermost call raises: no caller catches, the operation ends
Raised(kind) == [run EXCEPT !.stack = <<>>, !.err = kind]

\* the innermost call returns to its caller
Returns == [run EXCEPT !.stack = Callers]

\* __call__ up to its first call: err is what it raises before it, at the
\* place it goes on at after the calls in frames, left the number of chunks
Enter(at, frames, left) == [err |-> "none", at |-> at, frames |-> frames, left |-> left]

Refuse(kind) == [err |-> kind, at |-> "ret", frames |-> <<>>, left |-> 0]

\* p is the scaled coordinate
enter_scaled(p) ==
  IF p.err # "none" THEN Refuse(p.err) ELSE Enter("ret", <<ShellFrame(TRUE)>>, 0)

enter_mouse(g, text, coordinate, fp) ==
  IF IsNone(coordinate) THEN Refuse("InvalidArgument")
  ELSE IF ~IsNone(text) THEN Refuse("InvalidArgument")
  ELSE IF ~ValidCoordinate(Val(coordinate)) THEN Refuse("InvalidArgument")
  ELSE enter_scaled(scale_coordinates(g.width, g.height, "api",
                                      Val(coordinate).items[1],
                                      Val(coordinate).items[2], fp))

enter_keyboard(action, text, coordinate) ==
  IF IsNone(text) THEN Refuse("InvalidArgument")
  ELSE IF ~IsNone(coordinate) THEN Refuse("InvalidArgument")
  ELSE IF ~IsStr(text) THEN Refuse("TypeError")
  ELSE IF action = "key" THEN Enter("ret", <<ShellFrame(TRUE)>>, 0)
  ELSE Enter("chunks", <<>>, Len(chunks(Val(text), TYPING_GROUP_SIZE)))

enter_plain(action, text, coordinate) ==
  IF ~IsNone(text) THEN Refuse("InvalidArgument")
  ELSE IF ~IsNone(coordinate) THEN Refuse("InvalidArgument")
  ELSE IF action = "screenshot" THEN Enter("ret", <<ScreenshotFrame>>, 0)
  ELSE IF action = "cursor_position" THEN Enter("locate", <<ShellFrame(FALSE)>>, 0)
  ELSE Enter("ret", <<ShellFrame(TRUE)>>, 0)

enter(g, action, text, coordinate, fp) ==
  IF action = "get_screen_info" THEN Enter("capture", <<GetScreenInfoFrame>>, 0)
  ELSE IF IsNone(g.width) \/ IsNone(g.height) THEN Refuse("GeometryRequired")
  ELSE IF action \in MouseActions THEN enter_mouse(g, text, coordinate, fp)
  ELSE IF action \in KeyboardActions THEN enter_keyboard(action, text, coordinate)
  ELSE IF action \in PlainActions THEN enter_plain(action, text, coordinate)
  ELSE Refuse("InvalidAction")

Entered(e) ==
  IF e.err # "none" THEN Raised(e.err)
  ELSE [run EXCEPT !.stack = Callers \o <<[Top EXCEPT !.at = e.at, !.left = e.left]>>
                              \o e.frames]

\* Computer(action=..., text=..., coordinate=...) is called; "zoom" is a
\* kind outside Action
BeginCall ==
  /\ run = NoRun
  /\ \E a \in MouseActions \cup KeyboardActions \cup PlainActions
               \cup {"get_screen_info", "zoom"},
        t \in {None, NonStr}
               \cup {Some(TextOf(n)) : n \in {0, 1, TYPING_GROUP_SIZE, MaxTextLen}},
        c \in {None, Some(Coord(TRUE, TRUE, <<640, 400>>)),
               Some(Coord(TRUE, TRUE, <<2561, 400>>)),
               Some(Coord(TRUE, TRUE, <<0 - 1, 5>>))} :
       Step([NoRun EXCEPT !.stack = <<Frame("call", "start", FALSE, 0)>>, !.action = a, !.text = t,
                          !.coordinate = c])

\* Computer.screenshot(docker_image_id) is called
BeginScreenshot ==
  /\ run = NoRun
  /\ Step([NoRun EXCEPT !.stack = <<ScreenshotFrame>>, !.action = "screenshot()"])

\* __call__ from its first line to its first call of shell, screenshot or
\* get_screen_info
CallStart ==
  /\ At("call", "start")
  /\ \E fp \in FP :
       Step(Entered(enter(GeomNow, run.action, run.text, run.coordinate, fp)))

\* the for loop of type: a chunk is sent, and after the last the capture is
\* taken
CallChunk ==
  /\ At("call", "chunks")
  /\ Step([run EXCEPT !.stack =
             IF Top.left > 0
             THEN Callers \o <<[Top EXCEPT !.left = @ - 1]>> \o <<ShellFrame(FALSE)>>
             ELSE Goto("ret", <<ScreenshotFrame>>)])

\* get_screen_info has returned to __call__, which takes the capture
CallCapture ==
  /\ At("call", "capture")
  /\ Step([run EXCEPT !.stack = Goto("ret", <<ScreenshotFrame>>)])

\* cursor_position: the location report is parsed and scaled
CallLocate ==
  /\ At("call", "locate")
  /\ \E rep \in MouseReplies, fp \in FP :
       Step(IF call_cursor_position(GeomNow,
                 Env(NoReply, <<rep>>, CHOOSE cap \in Captures : TRUE, fp)).err # "none"
            THEN Raised(call_cursor_position(GeomNow,
                   Env(NoReply, <<rep>>, CHOOSE cap \in Captures : TRUE, fp)).err)
            ELSE Returns)

\* __call__ returns the result
CallReturn ==
  /\ At("call", "ret")
  /\ Step(Returns)

\* shell: command_run of the command; with take_screenshot the settle delay
\* and the call of screenshot follow
ShellRun ==
  /\ At("shell", "run")
  /\ Step([run EXCEPT !.cmds = @ + 1,
                      !.stack = IF Top.take THEN Goto("ret", <<ScreenshotFrame>>)
                                ELSE Callers])

\* shell returns the ToolResult with the image
ShellReturn ==
  /\ At("shell", "ret")
  /\ Step(Returns)

\* screenshot: the bootstrap if the geometry is not known
ScreenshotBoot ==
  /\ At("screenshot", "boot")
  /\ Step([run EXCEPT !.caps = @ + 1,
                      !.stack = IF IsNone(width) \/ IsNone(height)
                                THEN Goto("assert", <<GetScreenInfoFrame>>)
                                ELSE Goto("assert", <<>>)])

\* assert self.width and self.height
ScreenshotAssert ==
  /\ At("screenshot", "assert")
  /\ Step(IF TruthyInt(width) /\ TruthyInt(height)
          THEN [run EXCEPT !.stack = Goto("mkdir", <<>>)]
          ELSE Raised("AssertionError"))

\* the mkdir, scrot and convert commands of screenshot, each through shell
ScreenshotCommand ==
  \/ /\ At("screenshot", "mkdir")
     /\ Step([run EXCEPT !.stack = Goto("scrot", <<ShellFrame(capture_take_screenshot)>>)])
  \/ /\ At("screenshot", "scrot")
     /\ Step([run EXCEPT !.stack =
                Goto(IF scaling_enabled THEN "convert" ELSE "cp",
                     <<ShellFrame(capture_take_screenshot)>>)])
  \/ /\ At("screenshot", "convert")
     /\ Step([run EXCEPT !.stack = Goto("cp", <<ShellFrame(capture_take_screenshot)>>)])

\* docker cp and the test for the file
ScreenshotCopy ==
  /\ At("screenshot", "cp")
  /\ \E exists \in BOOLEAN :
       Step(IF exists THEN [Returns EXCEPT !.cmds = @ + 1]
            ELSE [Raised("CaptureFailed") EXCEPT !.cmds = @ + 1])

\* get_screen_info: the query through shell, with take_screenshot=False
GetScreenInfoQuery ==
  /\ At("get_screen_info", "query")
  /\ Step([run EXCEPT !.stack = Goto("store", <<ShellFrame(FALSE)>>)])

\* get_screen_info from its asserts on: reply is what the query printed
GetScreenInfoStore ==
  /\ At("get_screen_info", "store")
  /\ \E reply \in QueryReplies :
       IF get_screen_info(GeomNow, reply).err # "none"
       THEN Step(Raised(get_screen_info(GeomNow, reply).err))
       ELSE /\ run' = Returns
            /\ width' = get_screen_info(GeomNow, reply).geom.width
            /\ height' = get_screen_info(GeomNow, reply).geom.height
            /\ display_num' = get_screen_info(GeomNow, reply).geom.display_num
            /\ display_prefix' = get_screen_info(GeomNow, reply).geom.display_prefix
            /\ xdotool' = get_screen_info(GeomNow, reply).geom.xdotool
            /\ UNCHANGED <<booted, pc, last, sc, tr>>

\* the caller has the result or the exception
Forget ==
  /\ run.stack = <<>>
  /\ run # NoRun
  /\ Step(NoRun)

RunStep ==
  \/ CallStart
  \/ CallChunk
  \/ CallCapture
  \/ CallLocate
  \/ CallReturn
  \/ ShellRun
  \/ ShellReturn
  \/ ScreenshotBoot
  \/ ScreenshotAssert
  \/ ScreenshotCommand
  \/ ScreenshotCopy
  \/ GetScreenInfoQuery
  \/ GetScreenInfoStore

NextSteps == BeginCall \/ BeginScreenshot \/ RunStep \/ Forget

\* a call in progress goes on: the interpreter runs the next statement
SpecSteps == Init /\ [][NextSteps]_vars /\ WF_vars(RunStep)

----------------------------------------------------------------------------
(* Properties of the scaler, checked under SpecScale *)

W == Val(width)

H == Val(height)

\* the table entries whose aspect ratio is within 0.02 of width / height
Matching(w, h) ==
  {i \in 1..Len(MAX_SCALING_TARGETS) :
     50 * Abs(MAX_SCALING_TARGETS[i].width * h - w * MAX_SCALING_TARGETS[i].height)
       < MAX_SCALING_TARGETS[i].height * h}

\* the first matching entry in the order XGA, WXGA, FWXGA
FirstMatching(w, h) == CHOOSE i \in Matching(w, h) : \A j \in Matching(w, h) : i <= j

\* a scaling target is selected: the first matching entry is narrower
Selected(w, h) ==
  Matching(w, h) # {} /\ MAX_SCALING_TARGETS[FirstMatching(w, h)].width < w

\* k is an integer nearest to n / d (on a .5 tie both neighbours are)
Nearest(k, n, d) == 2 * Abs(k * d - n) <= d

ApiCall == sc.op \in {"api", "roundtrip"}

\* C4 as stated: scale(API, x, y) fails with OutOfBounds whenever x > width
\* or y > height, for every geometry, also one with no scaling target.
C4_OutOfBoundsEveryGeometry ==
  (ApiCall /\ (sc.x > W \/ sc.y > H)) => sc.r.err = "OutOfBounds"

\* C4 amended: scale(API, x, y) fails with OutOfBounds whenever a scaling
\* target is selected for the geometry and x > width or y > height; for a
\* geometry with no selected target it returns (x, y) unchanged and does not
\* fail, whatever x and y are.
C4_OutOfBoundsWhenTarget ==
  ApiCall =>
    /\ (Selected(W, H) /\ (sc.x > W \/ sc.y > H)) => sc.r.err = "OutOfBounds"
    /\ ~Selected(W, H) => (sc.r.err = "none" /\ sc.r.x = sc.x /\ sc.r.y = sc.y)

C4_Witness ==
  /\ sc.op = "api" /\ Selected(W, H)
  /\ sc.x > W /\ sc.y <= H
  /\ sc.r.err = "OutOfBounds"

\* C7: for a geometry whose ratio matches a table entry of at most the
\* device width, an API coordinate that scale(API, ...) accepts comes back
\* from API -> DEVICE -> API within 1 of itself on each axis.
C7_RoundTripWithinOne ==
  ( /\ sc.op = "roundtrip"
    /\ \E i \in Matching(W, H) : W >= MAX_SCALING_TARGETS[i].width
    /\ sc.r.err = "none" )
  => /\ sc.back.err = "none"
     /\ Abs(sc.back.x - sc.x) <= 1
     /\ Abs(sc.back.y - sc.y) <= 1

\* a scaled geometry where the round trip is off by exactly one
C7_Witness ==
  /\ sc.op = "roundtrip" /\ Selected(W, H)
  /\ sc.r.err = "none" /\ sc.back.err = "none"
  /\ sc.r.x # sc.x
  /\ Abs(sc.back.y - sc.y) = 1

\* C8: the first entry (XGA, WXGA, FWXGA) whose ratio is within 0.02 is the
\* target only if it is strictly narrower than the device; if it is not,
\* scale returns its input in both directions (1280x800); if it is,
\* scale(API, x, y) returns the integers nearest to x * width / target.width
\* and y * height / target.height (2560x1600: (640, 400) -> (1280, 800)).
C8_TargetSelectionAndScaling ==
  /\ ( /\ sc.op \in {"api", "computer"}
       /\ Matching(W, H) # {}
       /\ ~(MAX_SCALING_TARGETS[FirstMatching(W, H)].width < W) )
     => (sc.r.err = "none" /\ sc.r.x = sc.x /\ sc.r.y = sc.y)
  /\ (sc.op = "api" /\ Selected(W, H) /\ sc.x <= W /\ sc.y <= H)
     => /\ sc.r.err = "none"
        /\ Nearest(sc.r.x, sc.x * W, MAX_SCALING_TARGETS[FirstMatching(W, H)].width)
        /\ Nearest(sc.r.y, sc.y * H, MAX_SCALING_TARGETS[FirstMatching(W, H)].height)
  /\ (sc.op = "api" /\ W = 2560 /\ H = 1600 /\ sc.x = 640 /\ sc.y = 400)
     => (MAX_SCALING_TARGETS[FirstMatching(W, H)].name = "WXGA"
         /\ sc.r.err = "none" /\ sc.r.x = 1280 /\ sc.r.y = 800)

C8_Witness ==
  /\ sc.op = "api" /\ W = 2560 /\ H = 1600
  /\ sc.x = 640 /\ sc.y = 400
  /\ sc.r.x = 1280 /\ sc.r.y = 800

\* C9: for a geometry whose ratio is within 0.02 of no table entry, scale
\* returns (x, y) unchanged in both directions, for every x and y, and does
\* not fail.
C9_NoMatchIdentity ==
  (sc.op \in {"api", "computer"} /\ Matching(W, H) = {})
  => (sc.r.err = "none" /\ sc.r.x = sc.x /\ sc.r.y = sc.y)

C9_Witness ==
  /\ sc.op = "api" /\ Matching(W, H) = {}
  /\ sc.x > W
  /\ sc.r.err = "none" /\ sc.r.x = sc.x /\ sc.r.y = sc.y

\* C19: at most one entry of the table has a ratio within 0.02 of
\* width / height, and the target of the scan is the one any scan gives: if
\* an entry matches, the target is that entry if it is narrower than the
\* device and none if it is not, whichever matching entry a scan meets first
\* and whether or not it stops there; if no entry matches there is none.
C19_AtMostOneRatioMatch ==
  sc.op = "select"
  => /\ Cardinality(sc.matches) <= 1
     /\ sc.matches = Matching(W, H)
     /\ \A i \in Matching(W, H) :
          sc.target = IF MAX_SCALING_TARGETS[i].width < W
                      THEN Some(MAX_SCALING_TARGETS[i]) ELSE None
     /\ Matching(W, H) = {} => sc.target = None

C19_Witness ==
  /\ sc.op = "select"
  /\ W = 1600 /\ H = 1000
  /\ sc.matches = {2}
  /\ sc.target = Some(MAX_SCALING_TARGETS[2])

----------------------------------------------------------------------------
(* Properties of the dispatcher, checked under Spec *)

Returned == pc = "returned"

\* the instance had a width and a height when the dispatch began
HadGeometry == ~IsNone(last.geomBefore[1]) /\ ~IsNone(last.geomBefore[2])

\* the positions in events of the commands named
CommandsAt(events, names) ==
  {i \in 1..Len(events) : events[i].op = "exec" /\ events[i].cmd \in names}

\* the positions of the steps of the kind op
StepsAt(events, op) == {i \in 1..Len(events) : events[i].op = op}

CaptureCommands == {"mkdir", "scrot", "convert"}

\* C1: a dispatch of a kind other than get_screen_info fails with
\* GeometryRequired exactly when no get_screen_info bootstrap has succeeded
\* before it on the instance; a get_screen_info dispatch never fails with
\* GeometryRequired; after a successful bootstrap the width and the height
\* are set in every later state.
C1_GeometryRequiredIffNotBootstrapped ==
  /\ (Returned /\ last.action # "get_screen_info")
       => (last.err = "GeometryRequired" <=> ~last.bootedBefore)
  /\ (Returned /\ last.action = "get_screen_info") => last.err # "GeometryRequired"
  /\ booted => (~IsNone(width) /\ ~IsNone(height))

C1_Witness ==
  /\ Returned /\ ~last.bootedBefore
  /\ last.action = "zoom"
  /\ last.err = "GeometryRequired"

\* C2 as stated: once the geometry is set, width and height never change and
\* the sandbox is never asked for the geometry again, whatever is dispatched,
\* a further get_screen_info included.
C2_GeometryNeverChangesNorQueried ==
  (Returned /\ HadGeometry)
  => /\ width = last.geomBefore[1]
     /\ height = last.geomBefore[2]
     /\ CommandsAt(last.events, {"echo"}) = {}

\* C2 amended: once the geometry is set, a dispatch of any kind other than
\* get_screen_info leaves width and height as they are and does not ask the
\* sandbox for the geometry; a get_screen_info dispatch asks again, once, and
\* stores what is reported (and leaves them as they are if the query fails).
C2_GeometryChangesOnlyByGetScreenInfo ==
  (Returned /\ HadGeometry)
  => /\ last.action # "get_screen_info"
          => /\ width = last.geomBefore[1]
             /\ height = last.geomBefore[2]
             /\ CommandsAt(last.events, {"echo"}) = {}
     /\ last.action = "get_screen_info"
          => /\ Cardinality(CommandsAt(last.events, {"echo"})) = 1
             /\ last.err = "GeometryUnavailable"
                  => (width = last.geomBefore[1] /\ height = last.geomBefore[2])

C2_Witness ==
  /\ Returned /\ HadGeometry
  /\ last.action = "get_screen_info"
  /\ width # last.geomBefore[1]
  /\ height # last.geomBefore[2]

\* the coordinate is a pair of non-negative integers
IsPair(c) ==
  /\ c.tuple /\ c.ints
  /\ Len(c.items) = 2
  /\ c.items[1] >= 0 /\ c.items[2] >= 0

\* C3: with geometry established, mouse_move and left_click_drag fail with
\* InvalidArgument when the coordinate is absent, when text is present or
\* when the coordinate is not a pair of non-negative integers; key and type
\* when text is absent or a coordinate is present; the click and scroll
\* kinds, screenshot and cursor_position when text or a coordinate is
\* present.
C3_ArgumentContract ==
  (Returned /\ HadGeometry)
  => /\ ( /\ last.action \in {"mouse_move", "left_click_drag"}
          /\ \/ IsNone(last.coordinate)
             \/ ~IsNone(last.text)
             \/ ~IsPair(Val(last.coordinate)) )
        => last.err = "InvalidArgument"
     /\ ( /\ last.action \in {"key", "type"}
          /\ (IsNone(last.text) \/ ~IsNone(last.coordinate)) )
        => last.err = "InvalidArgument"
     /\ ( /\ last.action \in {"left_click", "right_click", "middle_click", "double_click",
                              "screenshot", "cursor_position", "scroll_up", "scroll_down"}
          /\ (~IsNone(last.text) \/ ~IsNone(last.coordinate)) )
        => last.err = "InvalidArgument"

C3_Witness ==
  /\ Returned /\ HadGeometry
  /\ last.action = "mouse_move"
  /\ last.text = None
  /\ last.coordinate = Some(Coord(TRUE, TRUE, <<0 - 1, 5>>))
  /\ last.err = "InvalidArgument"

\* the command a kind sends as its primary command
PrimaryOf(action) ==
  IF action = "mouse_move" THEN "mousemove"
  ELSE IF action = "left_click_drag" THEN "drag"
  ELSE IF action = "key" THEN "key"
  ELSE "click"

\* C5: a successful dispatch of mouse_move, left_click_drag, key, a click or
\* a scroll issues exactly one primary command, first, then the settle delay,
\* then exactly one capture, whose image is the image of the result; a
\* successful cursor_position issues its query command and nothing else, and
\* its result has no image.
C5_OnePrimaryThenOneCapture ==
  /\ ( /\ Returned /\ last.err = "none"
       /\ last.action \in {"mouse_move", "left_click_drag", "key", "left_click",
                           "right_click", "middle_click", "double_click",
                           "scroll_up", "scroll_down"} )
     => LET ev == last.events
        IN /\ CommandsAt(ev, {"mousemove", "drag", "key", "type", "click",
                              "getmouselocation", "echo"}) = {1}
           /\ ev[1].cmd = PrimaryOf(last.action)
           /\ StepsAt(ev, "sleep") = {2}
           /\ ev[2].args = <<2>>
           /\ Cardinality(CommandsAt(ev, {"scrot"})) = 1
           /\ Cardinality(StepsAt(ev, "cp")) = 1
           /\ StepsAt(ev, "read") = {Len(ev)}
           /\ \A i \in CommandsAt(ev, CaptureCommands) \cup StepsAt(ev, "cp") : i > 2
           /\ last.result.base64_image = Some(ev[Len(ev)].text)
  /\ (Returned /\ last.err = "none" /\ last.action = "cursor_position")
     => /\ Len(last.events) = 1
        /\ last.events[1].op = "exec"
        /\ last.events[1].cmd = "getmouselocation"
        /\ last.result.base64_image = None

C5_Witness ==
  /\ Returned /\ last.err = "none"
  /\ last.action = "double_click"
  /\ Len(last.events) = 7
  /\ last.result.base64_image = Some(<<105>>)

\* C6: a type dispatch with a text of n characters issues exactly
\* ceil(n / 50) chunk commands, first and in text order, each of at most 50
\* characters and together the text; no capture step comes before the last of
\* them, and a dispatch that returns has taken exactly one capture, after it
\* (n = 0: no chunk command, one capture).
C6_TypeChunksThenOneCapture ==
  ( /\ Returned /\ HadGeometry
    /\ last.action = "type"
    /\ last.err \in {"none", "CaptureFailed", "AssertionError"} )
  => LET ev == last.events
         n == Len(Val(last.text))
         k == (n + 49) \div 50
     IN /\ CommandsAt(ev, {"type"}) = 1..k
        /\ \A i \in 1..k : Len(ev[i].text) <= 50
        /\ Flatten([i \in 1..k |-> ev[i].text]) = Val(last.text)
        /\ StepsAt(ev, "sleep") = {}
        /\ Cardinality(CommandsAt(ev, {"scrot"})) <= 1
        /\ last.err = "none"
             => /\ Cardinality(CommandsAt(ev, {"scrot"})) = 1
                /\ Cardinality(StepsAt(ev, "cp")) = 1
                /\ StepsAt(ev, "read") = {Len(ev)}
                /\ last.result.base64_image = Some(ev[Len(ev)].text)

C6_Witness ==
  /\ Returned /\ last.action = "type" /\ last.err = "none"
  /\ Len(Val(last.text)) = 120
  /\ CommandsAt(last.events, {"type"}) = {1, 2, 3}
  /\ Len(last.events[1].text) = 50
  /\ Len(last.events[2].text) = 50
  /\ Len(last.events[3].text) = 20
  /\ Cardinality(CommandsAt(last.events, {"scrot"})) = 1

\* the positions of the commas of a report
Commas(s) == {i \in 1..Len(s) : s[i] = 44}

\* the text is an integer: whitespace, then an optional sign and decimal
\* digits (single underscores between digits allowed), then whitespace
IntegerText(f) ==
  \E lo \in 1..Len(f), hi \in 1..Len(f) :
    /\ lo <= hi
    /\ \A k \in 1..Len(f) : (k < lo \/ k > hi) => f[k] \in {9, 10, 11, 12, 13, 32}
    /\ LET st == IF f[lo] \in {43, 45} THEN lo + 1 ELSE lo
       IN /\ st <= hi
          /\ f[st] \in 48..57 /\ f[hi] \in 48..57
          /\ \A k \in st..hi : f[k] \in 48..57 \/ f[k] = 95
          /\ \A k \in st..(hi - 1) : f[k] # 95 \/ f[k + 1] # 95

\* the text between two positions of a report
Between(s, i, j) == [k \in 1..(j - i - 1) |-> s[i + k]]

\* the report is three comma-separated fields, each empty or an integer
ThreeFields(s) ==
  /\ Cardinality(Commas(s)) = 2
  /\ \A i \in Commas(s) \cup {0}, j \in Commas(s) \cup {Len(s) + 1} :
       (i < j /\ \A k \in Commas(s) : k <= i \/ k >= j)
       => (j = i + 1 \/ IntegerText(Between(s, i, j)))

\* C12: a get_screen_info dispatch fails with GeometryUnavailable when the
\* query returns error text, returns no output, or returns output that is
\* not three comma-separated fields each empty or an integer; after a failed
\* bootstrap the width, the height, the display number, the display prefix
\* (and the xdotool command) are what they were before the call.
C12_BootstrapFailureLeavesGeometry ==
  (Returned /\ last.action = "get_screen_info")
  => /\ ( \/ last.query.err # <<>>
          \/ last.query.out = <<>>
          \/ ~ThreeFields(last.query.out) )
        => last.err = "GeometryUnavailable"
     /\ last.err = "GeometryUnavailable"
        => /\ width = last.geomBefore[1]
           /\ height = last.geomBefore[2]
           /\ display_num = last.geomBefore[3]
           /\ display_prefix = last.geomBefore[4]
           /\ xdotool = last.geomBefore[5]

\* an instance with a geometry and a display number, and a report of three
\* fields of which one is no integer
C12_Witness ==
  /\ Returned /\ last.action = "get_screen_info"
  /\ last.geomBefore[1] = Some(1400) /\ last.geomBefore[3] = Some(1)
  /\ last.query.err = <<>>
  /\ Cardinality(Commas(last.query.out)) = 2
  /\ ~ThreeFields(last.query.out)
  /\ last.err = "GeometryUnavailable"
  /\ width = Some(1400) /\ display_num = Some(1) /\ display_prefix = <<1>>

\* the first and the second field of a report with two commas
ReportedWidth(s) == Between(s, 0, First(Commas(s)))

ReportedHeight(s) ==
  Between(s, First(Commas(s)), First(Commas(s) \ {First(Commas(s))}))

\* sizes a report may name
ReportedSizes == {0, 1050, 1400, 1600, 2560}

\* C13: after a bootstrap whose report names no width and no height the
\* stored width is 1024 and the stored height 768; a width or a height the
\* report names is stored as it is.
C13_DefaultsAreXGA ==
  ( /\ Returned /\ last.action = "get_screen_info"
    /\ last.err # "GeometryUnavailable"
    /\ Cardinality(Commas(last.query.out)) = 2 )
  => /\ ( /\ ReportedWidth(last.query.out) = <<>>
          /\ ReportedHeight(last.query.out) = <<>> )
        => (width = Some(1024) /\ height = Some(768))
     /\ \A n \in ReportedSizes :
          /\ ReportedWidth(last.query.out) = Dec(n) => width = Some(n)
          /\ ReportedHeight(last.query.out) = Dec(n) => height = Some(n)

\* the value of the option name of a command, none if it has no such option
OptionOf(ev, name) ==
  IF \E k \in 1..Len(ev.args) : ev.args[k][1] = name
  THEN Some(ev.args[CHOOSE k \in 1..Len(ev.args) : ev.args[k][1] = name][2])
  ELSE None

\* the click command has the button, the repeat count and the delay given
ClickIs(ev, button, repeat, delay) ==
  /\ ev.op = "exec" /\ ev.cmd = "click"
  /\ OptionOf(ev, "button") = button
  /\ OptionOf(ev, "repeat") = repeat
  /\ OptionOf(ev, "delay") = delay

\* C14: a click or scroll dispatch with legal arguments issues one click
\* command, first: left_click button 1, middle_click button 2, right_click
\* button 3 (no repeat, no delay), double_click button 1 with repeat 2 and
\* delay 500, scroll_up button 4 and scroll_down button 5 with repeat 1; a
\* dispatch of any other kind issues no click command.
C14_ClickButtons ==
  Returned
  => /\ ( /\ HadGeometry /\ IsNone(last.text) /\ IsNone(last.coordinate)
          /\ last.action \in {"left_click", "middle_click", "right_click",
                               "double_click", "scroll_up", "scroll_down"} )
        => /\ CommandsAt(last.events, {"click"}) = {1}
           /\ last.action = "left_click" => ClickIs(last.events[1], Some(1), None, None)
           /\ last.action = "middle_click" => ClickIs(last.events[1], Some(2), None, None)
           /\ last.action = "right_click" => ClickIs(last.events[1], Some(3), None, None)
           /\ last.action = "double_click"
                => ClickIs(last.events[1], Some(1), Some(2), Some(500))
           /\ last.action = "scroll_up" => ClickIs(last.events[1], Some(4), Some(1), None)
           /\ last.action = "scroll_down" => ClickIs(last.events[1], Some(5), Some(1), None)
     /\ last.action \notin {"left_click", "middle_click", "right_click",
                             "double_click", "scroll_up", "scroll_down"}
        => CommandsAt(last.events, {"click"}) = {}

C14_Witness ==
  /\ Returned /\ last.action = "right_click" /\ last.err = "none"
  /\ last.events[1].cmd = "click"
  /\ last.events[1].args = <<<<"button", 3>>>>
  /\ Cardinality(CommandsAt(last.events, {"scrot"})) = 1

\* the thirteen kinds of Action
Recognised ==
  {"key", "type", "mouse_move", "left_click", "left_click_drag", "right_click",
   "middle_click", "double_click", "screenshot", "cursor_position",
   "scroll_up", "scroll_down", "get_screen_info"}

\* the arguments are legal for the kind
LegalArguments ==
  \/ last.action = "get_screen_info"
  \/ /\ last.action \in {"mouse_move", "left_click_drag"}
     /\ IsNone(last.text)
     /\ ~IsNone(last.coordinate) /\ IsPair(Val(last.coordinate))
  \/ /\ last.action \in {"key", "type"}
     /\ ~IsNone(last.text) /\ IsStr(last.text)
     /\ IsNone(last.coordinate)
  \/ /\ last.action \in {"left_click", "right_click", "middle_click", "double_click",
                           "screenshot", "cursor_position", "scroll_up", "scroll_down"}
     /\ IsNone(last.text) /\ IsNone(last.coordinate)

\* C15 as stated: a dispatch of a kind that is not one of the thirteen fails
\* with InvalidAction, and a recognised kind with legal arguments never does.
C15_UnknownKindIsInvalidAction ==
  Returned
  => /\ last.action \notin Recognised => last.err = "InvalidAction"
     /\ (last.action \in Recognised /\ LegalArguments) => last.err # "InvalidAction"

\* C15 amended: a dispatch of a kind that is not one of the thirteen fails
\* with InvalidAction when the geometry is established and with
\* GeometryRequired when it is not; a recognised kind with legal arguments
\* returns or fails with another error, never with InvalidAction.
C15_UnknownKindAfterGeometry ==
  Returned
  => /\ (last.action \notin Recognised /\ HadGeometry) => last.err = "InvalidAction"
     /\ (last.action \notin Recognised /\ ~HadGeometry) => last.err = "GeometryRequired"
     /\ (last.action \in Recognised /\ LegalArguments) => last.err # "InvalidAction"

C15_Witness ==
  /\ Returned /\ HadGeometry
  /\ last.action = "zoom"
  /\ last.err = "InvalidAction"
  /\ last.events = <<>>

\* C16: a dispatch that fails with GeometryRequired, InvalidArgument,
\* InvalidAction or OutOfBounds has issued no command, taken no capture and
\* slept for no delay, and the width, the height, the display number, the
\* prefix (and the xdotool command) are what they were before it.
C16_RejectedDispatchHasNoEffect ==
  ( /\ Returned
    /\ last.err \in {"GeometryRequired", "InvalidArgument", "InvalidAction", "OutOfBounds"} )
  => /\ last.events = <<>>
     /\ width = last.geomBefore[1]
     /\ height = last.geomBefore[2]
     /\ display_num = last.geomBefore[3]
     /\ display_prefix = last.geomBefore[4]
     /\ xdotool = last.geomBefore[5]

C16_Witness ==
  /\ Returned /\ HadGeometry
  /\ last.action = "left_click_drag"
  /\ last.err = "OutOfBounds"
  /\ last.events = <<>>
  /\ width = Some(2560) /\ display_num = Some(1)

\* C17: when a mouse_move or left_click_drag dispatch succeeds, the
\* coordinate (x', y') of the command sent to the sandbox is inside the
\* device display: 0 <= x' <= width and 0 <= y' <= height.
C17_DeviceCoordinateInsideDisplay ==
  ( /\ Returned /\ last.err = "none"
    /\ last.action \in {"mouse_move", "left_click_drag"} )
  => /\ OptionOf(last.events[1], "x") # None
     /\ OptionOf(last.events[1], "y") # None
     /\ 0 <= Val(OptionOf(last.events[1], "x"))
     /\ Val(OptionOf(last.events[1], "x")) <= Val(width)
     /\ 0 <= Val(OptionOf(last.events[1], "y"))
     /\ Val(OptionOf(last.events[1], "y")) <= Val(height)

\* C20: a dispatch that has captured the screen has issued one resize
\* command, after the capture command and before the copy out of the
\* sandbox; the size it resizes to is the width and the height of the
\* target when a target is selected for the geometry, and the width and the
\* height of the device when none is.
C20_ResizeDimensions ==
  (Returned /\ CommandsAt(last.events, {"scrot"}) # {})
  => /\ Cardinality(CommandsAt(last.events, {"convert"})) = 1
     /\ Cardinality(StepsAt(last.events, "cp")) = 1
     /\ \A i \in CommandsAt(last.events, {"convert"}) :
          /\ \A j \in CommandsAt(last.events, {"scrot"}) : j < i
          /\ \A k \in StepsAt(last.events, "cp") : i < k
          /\ Selected(W, H)
               => /\ OptionOf(last.events[i], "w")
                       = Some(MAX_SCALING_TARGETS[FirstMatching(W, H)].width)
                  /\ OptionOf(last.events[i], "h")
                       = Some(MAX_SCALING_TARGETS[FirstMatching(W, H)].height)
          /\ ~Selected(W, H)
               => /\ OptionOf(last.events[i], "w") = Some(W)
                  /\ OptionOf(last.events[i], "h") = Some(H)

C20_Witness ==
  /\ Returned /\ last.action = "screenshot" /\ last.err = "none"
  /\ width = Some(1400) /\ height = Some(1050)
  /\ last.events[2].cmd = "scrot"
  /\ last.events[3].cmd = "convert"
  /\ last.events[3].args = <<<<"w", 1024>>, <<"h", 768>>>>
  /\ last.events[4].op = "cp"

----------------------------------------------------------------------------
(* Properties of the calls in progress, checked under SpecSteps *)

\* the frames of the kind fn on the stack
FramesOf(fn) == {i \in 1..Len(run.stack) : run.stack[i].fn = fn}

\* the chunk commands the operation sends: ceil(n / 50) for a type of n
\* characters that gets past the checks, none otherwise
ChunksOf ==
  IF run.action = "type" /\ run.text # None /\ IsStr(run.text)
  THEN (Len(Val(run.text)) + 49) \div 50
  ELSE 0

\* C18: in every state of an operation at most one capture is in progress,
\* at most one has been begun, a shell call made from inside screenshot
\* (the bootstrap query included) has capture suppressed, no more than four
\* calls are nested, and the commands issued are at most the chunks and five
\* more; and every operation that has begun ends.
C18_OneCaptureAndTermination ==
  /\ [](/\ Cardinality(FramesOf("screenshot")) <= 1
        /\ run.caps <= 1
        /\ \A i \in FramesOf("screenshot"), j \in FramesOf("shell") :
             i < j => ~run.stack[j].take
        /\ Len(run.stack) <= 4
        /\ run.cmds <= ChunksOf + 5)
  /\ (run.stack # <<>>) ~> (run.stack = <<>>)

\* a capture begun by the shell of a click, at its own shell call
C18_Witness ==
  /\ Len(run.stack) = 4
  /\ run.stack[2].fn = "shell" /\ run.stack[2].take
  /\ run.stack[3].fn = "screenshot"
  /\ run.stack[4].fn = "shell" /\ ~run.stack[4].take
  /\ run.cmds = 2 /\ run.caps = 1

----------------------------------------------------------------------------
(* Properties of the combination, checked under SpecAdd *)

\* the image field holds a non-empty image
HasImage(r) == r.base64_image # None /\ r.base64_image # Some(<<>>)

\* C10: a + b fails when both carry a non-empty image; when exactly one of
\* them does, in either order, a + b does not fail and its image is that
\* image.
C10_ImageCombination ==
  tr.op = "add"
  => /\ (HasImage(tr.a) /\ HasImage(tr.b)) => tr.r.err # "none"
     /\ (HasImage(tr.a) /\ ~HasImage(tr.b))
          => (tr.r.err = "none" /\ tr.r.res.base64_image = tr.a.base64_image)
     /\ (~HasImage(tr.a) /\ HasImage(tr.b))
          => (tr.r.err = "none" /\ tr.r.res.base64_image = tr.b.base64_image)

C10_Witness ==
  /\ tr.op = "add"
  /\ HasImage(tr.a) /\ HasImage(tr.b)
  /\ Truthy(tr.a.output) /\ Truthy(tr.b.output)
  /\ tr.r.err = "ValueError"

\* C11: for all results a, b and c whose fields are absent, empty or
\* non-empty, (a + b) + c and a + (b + c) both fail or both succeed, and
\* when they succeed their output, error, image and system fields are equal.
C11_AddAssociative ==
  tr.op = "assoc"
  => /\ (tr.r.err = "none") <=> (tr.rr.err = "none")
     /\ tr.r.err = "none"
          => /\ tr.r.res.output = tr.rr.res.output
             /\ tr.r.res.error = tr.rr.res.error
             /\ tr.r.res.base64_image = tr.rr.res.base64_image
             /\ tr.r.res.system = tr.rr.res.system

\* three non-empty outputs concatenated in order, with the one image of an
\* operand that follows one with an empty image
C11_Witness ==
  /\ tr.op = "assoc"
  /\ tr.a.base64_image = Some(<<>>) /\ tr.b.base64_image = None
  /\ HasImage(tr.c)
  /\ tr.r.err = "none" /\ tr.rr.err = "none"
  /\ tr.r.res.output = Some(<<1, 2, 3>>)
  /\ tr.rr.res.base64_image = tr.c.base64_image

====
